---------------------------- MODULE Spec2Model ----------------------------
(***************************************************************************)
(* WeasyPrint: the HTML element handlers (weasy/html.py) and the Pango     *)
(* text fragments (weasy/text.py).                                         *)
(*                                                                         *)
(* Python values are written as follows.  An optional value (None or a     *)
(* value) is a sequence of length 0 or 1: None is << >>, the value v is    *)
(* <<v>>.  An attribute string is a sequence of one-character strings.     *)
(* A call's outcome is a record [raised, value]: raised is "none" or the   *)
(* name of the exception that left the call, value is what it returned.    *)
(* A handler additionally reports the state of the provisional box object  *)
(* after the call (handlers write to it).                                  *)
(***************************************************************************)
EXTENDS Integers, Sequences, FiniteSets

VARIABLES
    pc,         \* the box builder: "built", "handled", "classified"; "text" in the text runs
    element,    \* the element of the current call
    box0,       \* the provisional box as it was passed to the call
    box,        \* the same box object after the call
    called,     \* the function that ran: a handler name, "none", "is_block_level"
    outcome,    \* [raised, value] of the last call
    layout,     \* the Pango layout of the text fragment
    last,       \* the last text fragment call: [op, arg, raised]
    line,       \* the last line query: [text, remaining]
    run         \* the text run being broken into lines: [text, start, lines]

vars == <<pc, element, box0, box, called, outcome, layout, last, line, run>>

None == << >>
Some(v) == <<v>>

Return(v) == [raised |-> "none", value |-> v]
Raise(e) == [raised |-> e, value |-> << >>]

-----------------------------------------------------------------------------
(* Bounds and input domains of the HTML part.                               *)

\* The span, colspan and rowspan a provisional box may already hold: 1..MaxSpan.
MaxSpan == 2

RegisteredTags == {"img", "br", "colgroup", "col", "td", "th"}
Tags == RegisteredTags \cup {"p"}

SourceLines == {3, 8}

\* What get_url_attribute(element, 'src') gives: None, '' or an absolute URL.
Urls == {"a.png", "b.png", "broken.png"}
SrcValues == {None, Some("")} \cup {Some(u) : u \in Urls}

AltValues == {None, Some(""), Some("A cat")}

\* Attribute strings as written in markup (absent is None).
AttrStrings ==
    { << >>, <<"3">>, <<" ", "3", " ">>, <<"1">>, <<"0">>, <<"1", "0">>,
      <<"-", "1">>, <<"+", "2">>, <<"a", "b", "c">>, <<"3", "a">>,
      <<"3", " ", "3">> }
AttrValues == {None} \cup {Some(s) : s \in AttrStrings}

ChildTags == { << >>, <<"col">>, <<"p", "col">> }

NoAttributes ==
    [src |-> None, alt |-> None, span |-> None, colspan |-> None,
     rowspan |-> None, children |-> << >>]

ElementsOf(tag) ==
    CASE tag = "img" ->
           {[NoAttributes EXCEPT !.src = s, !.alt = a] :
                s \in SrcValues, a \in AltValues}
      [] tag = "colgroup" ->
           {[NoAttributes EXCEPT !.span = n, !.children = c] :
                n \in AttrValues, c \in ChildTags}
      [] tag = "col" ->
           {[NoAttributes EXCEPT !.span = n] : n \in AttrValues}
      [] tag \in {"td", "th"} ->
           {[NoAttributes EXCEPT !.colspan = c, !.rowspan = r] :
                c \in AttrValues, r \in AttrValues}
      [] OTHER -> {NoAttributes}

Style(display) == [display |-> display, white_space |-> "normal"]

Elements ==
    UNION {{[tag |-> t, sourceline |-> n, src |-> a.src, alt |-> a.alt,
             span |-> a.span, colspan |-> a.colspan, rowspan |-> a.rowspan,
             children |-> a.children] : a \in ElementsOf(t), n \in SourceLines}
           : t \in Tags}

\* The provisional boxes the box builder hands over for an element.  oid is
\* the identity of the Python object: 0 for the provisional box, 1, 2, ...
\* for the boxes a handler creates.  element_tag is the tag the builder gave
\* the box; handle_element reads it independently of element.tag.
ProvisionalBoxes(sourceline) ==
    UNION {
      {[oid |-> 0, type |-> "BlockBox", element_tag |-> t,
        sourceline |-> sourceline, style |-> Style(d)] :
           d \in {"block", "list-item", "table"}}
      \cup
      {[oid |-> 0, type |-> "InlineBox", element_tag |-> t,
        sourceline |-> sourceline, style |-> Style(d)] :
           d \in {"inline", "inline-table", "inline-block", "run-in"}}
      \cup
      {[oid |-> 0, type |-> ty, element_tag |-> t, sourceline |-> sourceline,
        style |-> Style("table-column"), span |-> n] :
           ty \in {"TableColumnGroupBox", "TableColumnBox"}, n \in 1..MaxSpan}
      \cup
      {[oid |-> 0, type |-> "TableCellBox", element_tag |-> t,
        sourceline |-> sourceline, style |-> Style("table-cell"),
        colspan |-> c, rowspan |-> r] : c \in 1..MaxSpan, r \in 1..MaxSpan}
      : t \in Tags}

\* document.get_image_surface_from_uri: a decoded surface, or None.
document ==
    [u \in Urls |->
        CASE u = "a.png" -> Some("surface_a")
          [] u = "b.png" -> Some("surface_b")
          [] OTHER -> None]

-----------------------------------------------------------------------------
(* weasy/html.py                                                            *)

\* Python truth of an optional string: None and '' are false.
Truthy(opt) == opt # None /\ opt[1] # ""

\* is_block_level with the final raise replaced by a default.
is_block_level_lenient(b) ==
    IF b.style.display \in {"block", "list-item", "table"} THEN Return(TRUE)
    ELSE Return(FALSE)

is_block_level(b) ==
    LET display == b.style.display
    IN  IF display \in {"block", "list-item", "table"} THEN Return(TRUE)
        ELSE IF display \in {"inline", "inline-table", "inline-block"}
             THEN Return(FALSE)
        ELSE Raise("ValueError")

ImageReplacement(surface) ==
    IF surface = None THEN Raise("AssertionError")
    ELSE Return([class |-> "ImageReplacement", surface |-> surface[1]])

\* make_replaced_box with the two box types exchanged.
make_replaced_box_swapped(e, b, replacement) ==
    LET level == is_block_level(b)
    IN  IF level.raised # "none" THEN Raise(level.raised)
        ELSE Return([oid |-> 1,
                     type |-> IF level.value THEN "InlineLevelReplacedBox"
                              ELSE "BlockLevelReplacedBox",
                     element_tag |-> e.tag, sourceline |-> e.sourceline,
                     style |-> b.style, replacement |-> replacement])

make_replaced_box(e, b, replacement) ==
    LET level == is_block_level(b)
    IN  IF level.raised # "none" THEN Raise(level.raised)
        ELSE Return([oid |-> 1,
                     type |-> IF level.value THEN "BlockLevelReplacedBox"
                              ELSE "InlineLevelReplacedBox",
                     element_tag |-> e.tag, sourceline |-> e.sourceline,
                     style |-> b.style, replacement |-> replacement])

make_text_box(e, b, text) ==
    LET text_box == [oid |-> 1, type |-> "TextBox", element_tag |-> e.tag,
                     sourceline |-> e.sourceline,
                     style |-> [inherit_from |-> b.style], text |-> text]
        level == is_block_level(b)
    IN  IF level.raised # "none" THEN Raise(level.raised)
        ELSE Return([oid |-> 2,
                     type |-> IF level.value THEN "BlockBox" ELSE "InlineBox",
                     element_tag |-> e.tag, sourceline |-> e.sourceline,
                     style |-> b.style, children |-> <<text_box>>])

\* A handler's result: the call's outcome and the provisional box afterwards.
Result(out, b) == [raised |-> out.raised, value |-> out.value, box |-> b]

\* return [f(...)]: the list of the one box f returns, or f's exception.
ListOf(out) == IF out.raised # "none" THEN out ELSE Return(<<out.value>>)

\* handle_img testing "alt is not None" where the code tests "alt".
handle_img_alt_not_none(doc, e, b) ==
    LET src == e.src
        alt == e.alt
    IN  IF Truthy(src) /\ doc[src[1]] # None
        THEN Result(ListOf(make_replaced_box(
                        e, b, ImageReplacement(doc[src[1]]).value)), b)
        ELSE IF alt # None
             THEN Result(ListOf(make_text_box(e, b, alt[1])), b)
             ELSE Result(Return(<< >>), b)

handle_img(doc, e, b) ==
    LET src == e.src
        alt == e.alt
    IN  IF Truthy(src)
        THEN LET surface == doc[src[1]]
             IN  IF surface # None
                 THEN LET replacement == ImageReplacement(surface)
                      IN  IF replacement.raised # "none"
                          THEN Result(replacement, b)
                          ELSE Result(ListOf(make_replaced_box(
                                          e, b, replacement.value)), b)
                 ELSE IF Truthy(alt)
                      THEN Result(ListOf(make_text_box(e, b, alt[1])), b)
                      ELSE IF alt = Some("") THEN Result(Return(<< >>), b)
                      ELSE IF alt = None THEN Result(Return(<< >>), b)
                      ELSE Result(Raise("AssertionError"), b)
        ELSE IF Truthy(alt)
             THEN Result(ListOf(make_text_box(e, b, alt[1])), b)
             ELSE Result(Return(<< >>), b)

\* handle_br without the write to newline.style.white_space.
handle_br_collapsible(doc, e, b) ==
    LET newline == [oid |-> 1, type |-> "TextBox", element_tag |-> e.tag,
                    sourceline |-> e.sourceline, style |-> b.style,
                    text |-> "\n"]
    IN  Result(Return(<<[oid |-> 2, type |-> "InlineBox",
                         element_tag |-> e.tag, sourceline |-> e.sourceline,
                         style |-> b.style, children |-> <<newline>>]>>), b)

\* The TextBox and the InlineBox are handed the style object of the
\* provisional box itself, so the write to newline.style is a write to that
\* one object.
handle_br(doc, e, b) ==
    LET style == [b.style EXCEPT !.white_space = "pre"]
        newline == [oid |-> 1, type |-> "TextBox", element_tag |-> e.tag,
                    sourceline |-> e.sourceline, style |-> style,
                    text |-> "\n"]
    IN  Result(Return(<<[oid |-> 2, type |-> "InlineBox",
                         element_tag |-> e.tag, sourceline |-> e.sourceline,
                         style |-> style, children |-> <<newline>>]>>),
               [b EXCEPT !.style = style])

\* str.strip(): the string without its leading and trailing whitespace.
Whitespace == {" ", "\t", "\n", "\r"}

RECURSIVE lstrip(_)
lstrip(s) ==
    IF s # << >> /\ Head(s) \in Whitespace THEN lstrip(Tail(s)) ELSE s

RECURSIVE rstrip(_)
rstrip(s) ==
    IF s # << >> /\ s[Len(s)] \in Whitespace
    THEN rstrip(SubSeq(s, 1, Len(s) - 1)) ELSE s

strip(s) == rstrip(lstrip(s))

DecimalDigits == {"0", "1", "2", "3", "4", "5", "6", "7", "8", "9"}

DigitValue(c) ==
    CASE c = "0" -> 0 [] c = "1" -> 1 [] c = "2" -> 2 [] c = "3" -> 3
      [] c = "4" -> 4 [] c = "5" -> 5 [] c = "6" -> 6 [] c = "7" -> 7
      [] c = "8" -> 8 [] c = "9" -> 9

RECURSIVE DecimalValue(_)
DecimalValue(digits) ==
    IF digits = << >> THEN 0
    ELSE 10 * DecimalValue(SubSeq(digits, 1, Len(digits) - 1))
         + DigitValue(digits[Len(digits)])

\* int(string): surrounding whitespace, an optional sign, decimal digits;
\* anything else is a ValueError.
int(s) ==
    LET t == strip(s)
        signed == t # << >> /\ Head(t) \in {"+", "-"}
        digits == IF signed THEN Tail(t) ELSE t
    IN  IF digits = << >> \/ \E i \in 1..Len(digits) : digits[i] \notin DecimalDigits
        THEN Raise("ValueError")
        ELSE Return(IF signed /\ Head(t) = "-" THEN 0 - DecimalValue(digits)
                    ELSE DecimalValue(digits))

\* element.get(name, ''): the attribute's string, '' when it is absent.
get(e, name) == IF e[name] = None THEN << >> ELSE e[name][1]

\* The box after integer_attribute(element, box, name, minimum); the
\* ValueError of int() is caught and nothing is raised.
integer_attribute(e, b, name, minimum) ==
    LET value == int(strip(get(e, name)))
    IN  IF value.raised = "ValueError" THEN b
        ELSE IF value.value >= minimum THEN [b EXCEPT ![name] = value.value]
        ELSE b

handle_colgroup(doc, e, b) ==
    IF b.type = "TableColumnGroupBox"
    THEN IF \E i \in 1..Len(e.children) : e.children[i] = "col"
         THEN LET b1 == [b EXCEPT !.span = None]
              IN  Result(Return(<<b1>>), b1)
         ELSE LET b1 == integer_attribute(e, b, "span", 1)
              IN  Result(Return(<<b1>>), b1)
    ELSE Result(Return(<<b>>), b)

\* box.copy(): a new object (a new oid) with the fields of the box.
copy(b, oid) == [b EXCEPT !.oid = oid]

\* handle_col counting the copies from 1: one box too few.
handle_col_one_short(doc, e, b) ==
    IF b.type = "TableColumnBox"
    THEN LET b1 == integer_attribute(e, b, "span", 1)
         IN  IF b1.span > 1
             THEN Result(Return([i \in 1..(b1.span - 1) |-> copy(b1, i)]), b1)
             ELSE Result(Return(<<b1>>), b1)
    ELSE Result(Return(<<b>>), b)

handle_col(doc, e, b) ==
    IF b.type = "TableColumnBox"
    THEN LET b1 == integer_attribute(e, b, "span", 1)
         IN  IF b1.span > 1
             THEN Result(Return([i \in 1..b1.span |-> copy(b1, i)]), b1)
             ELSE Result(Return(<<b1>>), b1)
    ELSE Result(Return(<<b>>), b)

\* handle_td reading rowspan with the default minimum of 1.
handle_td_default_minimum(doc, e, b) ==
    IF b.type = "TableCellBox"
    THEN LET b1 == integer_attribute(e, b, "colspan", 1)
             b2 == integer_attribute(e, b1, "rowspan", 1)
         IN  Result(Return(<<b2>>), b2)
    ELSE Result(Return(<<b>>), b)

handle_td(doc, e, b) ==
    IF b.type = "TableCellBox"
    THEN LET b1 == integer_attribute(e, b, "colspan", 1)
             b2 == integer_attribute(e, b1, "rowspan", 0)
         IN  Result(Return(<<b2>>), b2)
    ELSE Result(Return(<<b>>), b)

\* The registry the @handler decorators fill at import time.
HTML_HANDLERS ==
    [t \in RegisteredTags |->
        CASE t = "img" -> "handle_img"
          [] t = "br" -> "handle_br"
          [] t = "colgroup" -> "handle_colgroup"
          [] t = "col" -> "handle_col"
          [] t \in {"td", "th"} -> "handle_td"]

\* HTML_HANDLERS[tag](document, element, box)
CallHandler(name, doc, e, b) ==
    CASE name = "handle_img" -> handle_img(doc, e, b)
      [] name = "handle_br" -> handle_br(doc, e, b)
      [] name = "handle_colgroup" -> handle_colgroup(doc, e, b)
      [] name = "handle_col" -> handle_col(doc, e, b)
      [] name = "handle_td" -> handle_td(doc, e, b)

\* The membership test reads box.element_tag, the lookup reads element.tag;
\* a lookup of a key the registry does not hold is a KeyError.
handle_element(doc, e, b) ==
    IF b.element_tag \in DOMAIN HTML_HANDLERS
    THEN IF e.tag \in DOMAIN HTML_HANDLERS
         THEN [called |-> HTML_HANDLERS[e.tag],
               result |-> CallHandler(HTML_HANDLERS[e.tag], doc, e, b)]
         ELSE [called |-> "none", result |-> Result(Raise("KeyError"), b)]
    ELSE [called |-> "none", result |-> Result(Return(<<b>>), b)]

-----------------------------------------------------------------------------
(* weasy/text.py: TextFragment                                              *)

ALIGN_PROPERTIES ==
    [k \in {"left", "right", "center"} |->
        CASE k = "left" -> "ALIGN_LEFT"
          [] k = "right" -> "ALIGN_RIGHT"
          [] k = "center" -> "ALIGN_CENTER"]

STYLE_PROPERTIES ==
    [k \in {"normal", "italic", "oblique"} |->
        CASE k = "normal" -> "STYLE_NORMAL"
          [] k = "italic" -> "STYLE_ITALIC"
          [] k = "oblique" -> "STYLE_OBLIQUE"]

VARIANT_PROPERTIES ==
    [k \in {"normal", "small-caps"} |->
        CASE k = "normal" -> "VARIANT_NORMAL"
          [] k = "small-caps" -> "VARIANT_SMALL_CAPS"]

\* pango.SCALE: Pango units per pixel.
PANGO_SCALE == 1024

\* unicode.encode('utf-8'): one byte for an ASCII character, two for "é".
Utf8(c) == IF c = "é" THEN <<"0xC3", "0xA9">> ELSE <<c>>

RECURSIVE encode(_)
encode(text) ==
    IF text = << >> THEN << >> ELSE Utf8(Head(text)) \o encode(Tail(text))

\* str.decode('utf-8'): the characters, or a UnicodeDecodeError when the bytes
\* hold a lead byte without its continuation or a stray continuation byte.
RECURSIVE decode(_)
decode(bytes) ==
    IF bytes = << >> THEN Return(<< >>)
    ELSE IF Head(bytes) = "0xC3"
         THEN IF Len(bytes) >= 2 /\ bytes[2] = "0xA9"
              THEN LET rest == decode(SubSeq(bytes, 3, Len(bytes)))
                   IN  IF rest.raised # "none" THEN rest
                       ELSE Return(<<"é">> \o rest.value)
              ELSE Raise("UnicodeDecodeError")
    ELSE IF Head(bytes) = "0xA9" THEN Raise("UnicodeDecodeError")
    ELSE LET rest == decode(Tail(bytes))
         IN  IF rest.raised # "none" THEN rest
             ELSE Return(<<Head(bytes)>> \o rest.value)

\* set_text: the layout holds the UTF-8 bytes of the text.
set_text(l, text) == [l EXCEPT !.text = encode(text)]

\* set_width: -1 is kept, any other width is scaled to Pango units.
set_width(l, width) ==
    [l EXCEPT !.width = IF width # -1 THEN PANGO_SCALE * width ELSE width]

\* A fresh pango layout, then __init__'s set_text, set_width and set_wrap.
\* A new layout is left-aligned, not justified, and its font description is
\* the context's.
TextFragment(text, width) ==
    LET fresh == [text |-> << >>, width |-> -1, wrap |-> "WRAP_DEFAULT",
                  alignment |-> "ALIGN_LEFT", justify |-> FALSE,
                  font |-> [style |-> "STYLE_NORMAL",
                            variant |-> "VARIANT_NORMAL", weight |-> 400]]
    IN  [set_width(set_text(fresh, text), width) EXCEPT !.wrap = "WRAP_WORD"]

\* A mutator's result: the layout afterwards and the exception, if any.
Mutated(l, raised) == [layout |-> l, raised |-> raised]

set_alignment(l, alignment) ==
    IF alignment = "justify"
    THEN Mutated([l EXCEPT !.alignment = ALIGN_PROPERTIES["left"],
                           !.justify = TRUE], "none")
    ELSE IF alignment \in DOMAIN ALIGN_PROPERTIES
         THEN Mutated([l EXCEPT !.alignment = ALIGN_PROPERTIES[alignment]],
                      "none")
         ELSE Mutated(l, "KeyError")

\* set_font_style ignoring an unknown keyword instead of raising.
set_font_style_silent(l, style) ==
    IF style \in DOMAIN STYLE_PROPERTIES
    THEN Mutated([l EXCEPT !.font.style = STYLE_PROPERTIES[style]], "none")
    ELSE Mutated(l, "none")

set_font_style(l, style) ==
    IF style \in DOMAIN STYLE_PROPERTIES
    THEN Mutated([l EXCEPT !.font.style = STYLE_PROPERTIES[style]], "none")
    ELSE Mutated(l, "ValueError")

set_font_variant(l, variant) ==
    IF variant \in DOMAIN VARIANT_PROPERTIES
    THEN Mutated([l EXCEPT !.font.variant = VARIANT_PROPERTIES[variant]],
                 "none")
    ELSE Mutated(l, "ValueError")

set_font_weight(l, weight) ==
    Mutated([l EXCEPT !.font.weight = weight], "none")

-----------------------------------------------------------------------------
(* The Pango layout behind self.layout.get_line(n), for a layout that wraps *)
(* at words (set_wrap(pango.WRAP_WORD)).  Offsets and lengths are counted   *)
(* in bytes of the UTF-8 text.                                              *)

\* The advance of a character's glyph, in Pango units: one pixel.
Advance(c) == PANGO_SCALE

RECURSIVE PrefixWidth(_, _)
PrefixWidth(chars, k) ==
    IF k = 0 THEN 0 ELSE PrefixWidth(chars, k - 1) + Advance(chars[k])

ByteIndex(chars, k) == Len(encode(SubSeq(chars, 1, k)))

\* The first paragraph: the characters before the first newline.
ParagraphLength(chars) ==
    IF \E i \in 1..Len(chars) : chars[i] = "\n"
    THEN (CHOOSE i \in 1..Len(chars) :
              chars[i] = "\n" /\ \A j \in 1..(i - 1) : chars[j] # "\n") - 1
    ELSE Len(chars)

\* A line may end after k characters of the paragraph when a space ends it
\* and a word begins the next line.
CanBreakAt(par, k) ==
    k >= 1 /\ k < Len(par) /\ par[k] = " " /\ par[k + 1] # " "

Max(S) == CHOOSE x \in S : \A y \in S : y <= x
Min(S) == CHOOSE x \in S : \A y \in S : x <= y

\* The number of characters of the paragraph on its first line.  The whole
\* paragraph when wrapping is off or it fits; else the last break that fits,
\* the space before the break counted in; else the first break (a line
\* holds at least one word); else everything.
WrapPoint(par, width) ==
    LET breaks == {k \in 1..Len(par) : CanBreakAt(par, k)}
        fitting == {k \in breaks : PrefixWidth(par, k) <= width}
    IN  IF width < 0 \/ PrefixWidth(par, Len(par)) <= width THEN Len(par)
        ELSE IF fitting # {} THEN Max(fitting)
        ELSE IF breaks # {} THEN Min(breaks)
        ELSE Len(par)

\* layout.get_line(n) for n in {0, 1}: None, or the line's start_index and
\* length.  A newline belongs to no line: the line after it starts past it.
get_line(l, n) ==
    LET chars == decode(l.text).value
        plen == ParagraphLength(chars)
        par == SubSeq(chars, 1, plen)
        first == WrapPoint(par, l.width)
    IN  IF n = 0
        THEN Some([start_index |-> 0, length |-> ByteIndex(chars, first)])
        ELSE IF first < plen
        THEN Some([start_index |-> ByteIndex(chars, first)])
        ELSE IF plen < Len(chars)
        THEN Some([start_index |-> ByteIndex(chars, plen + 1)])
        ELSE None

-----------------------------------------------------------------------------
(* weasy/text.py: TextLineFragment                                          *)

\* get_remaining_text slicing the decoded text, not the bytes, at the byte
\* offset of the second line.
get_remaining_text_unicode_slice(l) ==
    LET second_line == get_line(l, 1)
        chars == decode(l.text).value
    IN  IF second_line # None
        THEN Return(Some(SubSeq(chars, second_line[1].start_index + 1,
                                Len(chars))))
        ELSE Return(None)

\* get_remaining_text slicing at the length of the first line, where the
\* preserved newline after the first line is not skipped.
get_remaining_text_first_line_length(l) ==
    LET first_line == get_line(l, 0)
        second_line == get_line(l, 1)
    IN  IF second_line # None
        THEN LET text == decode(SubSeq(l.text, first_line[1].length + 1,
                                       Len(l.text)))
             IN  IF text.raised # "none" THEN text
                 ELSE Return(Some(text.value))
        ELSE Return(None)

\* The optional unicode text past the first line.
get_remaining_text(l) ==
    LET second_line == get_line(l, 1)
    IN  IF second_line # None
        THEN LET text == decode(SubSeq(l.text,
                                       second_line[1].start_index + 1,
                                       Len(l.text)))
             IN  IF text.raised # "none" THEN text
                 ELSE Return(Some(text.value))
        ELSE Return(None)

get_text(l) ==
    LET first_line == get_line(l, 0)
    IN  decode(SubSeq(l.text, 1, first_line[1].length))

-----------------------------------------------------------------------------
(* Bounds and input domains of the text part.                               *)

\* The longest generated text, in characters, and the widest wrap width, in
\* pixels.
MaxTextLen == 5
MaxWidth == 4

TextAlphabet == {"a", "é", " ", "\n"}

RECURSIVE TextsOfLength(_)
TextsOfLength(n) ==
    IF n = 0 THEN {<< >>}
    ELSE {Append(t, c) : t \in TextsOfLength(n - 1), c \in TextAlphabet}

TheQuickBrownFox ==
    <<"T", "h", "e", " ", "q", "u", "i", "c", "k", " ",
      "b", "r", "o", "w", "n", " ", "f", "o", "x">>

Texts == UNION {TextsOfLength(n) : n \in 0..MaxTextLen}
Widths == {-1} \cup 0..MaxWidth

\* The text and width arguments of the fragments constructed.
FragmentInputs ==
    (Texts \X Widths)
    \cup ({TheQuickBrownFox} \X ({-1} \cup 0..(Len(TheQuickBrownFox) + 1)))

AlignmentKeywords == {"left", "right", "center", "justify", "start"}
StyleKeywords == {"normal", "italic", "oblique", "bold"}
VariantKeywords == {"normal", "small-caps", "all-caps"}
Weights == {400, 700}

-----------------------------------------------------------------------------
(* The HTML run: the box builder hands an element and its provisional box   *)
(* to handle_element, or asks is_block_level about the box.                 *)

NoCall == [op |-> "none", arg |-> "none", raised |-> "none"]
NoLine == [text |-> << >>, remaining |-> None]
NoRun == [text |-> << >>, start |-> 0, lines |-> << >>]

Init ==
    /\ pc = "built"
    /\ element \in Elements
    /\ box0 \in ProvisionalBoxes(element.sourceline)
    /\ box = box0
    /\ called = "none"
    /\ outcome = Return(<< >>)
    /\ layout = TextFragment(<< >>, -1)
    /\ last = NoCall
    /\ line = NoLine
    /\ run = NoRun

HandleElement ==
    /\ pc = "built"
    /\ LET r == handle_element(document, element, box0)
       IN  /\ called' = r.called
           /\ outcome' = [raised |-> r.result.raised, value |-> r.result.value]
           /\ box' = r.result.box
    /\ pc' = "handled"
    /\ UNCHANGED <<element, box0, layout, last, line, run>>

IsBlockLevel ==
    /\ pc = "built"
    /\ called' = "is_block_level"
    /\ outcome' = is_block_level(box0)
    /\ pc' = "classified"
    /\ UNCHANGED <<element, box0, box, layout, last, line, run>>

Next == HandleElement \/ IsBlockLevel

Spec == Init /\ [][Next]_vars

-----------------------------------------------------------------------------
(* The font run: one TextFragment and calls of its mutators.                *)

HtmlIdle ==
    /\ pc = "text"
    /\ element = [tag |-> "p", sourceline |-> 0]
    /\ box0 = [oid |-> 0]
    /\ box = box0
    /\ called = "none"
    /\ outcome = Return(<< >>)

InitFragment ==
    /\ HtmlIdle
    /\ layout = TextFragment(<< >>, -1)
    /\ last = NoCall
    /\ line = NoLine
    /\ run = NoRun

Mutate(op, arg, r) ==
    /\ layout' = r.layout
    /\ last' = [op |-> op, arg |-> arg, raised |-> r.raised]
    /\ UNCHANGED <<pc, element, box0, box, called, outcome, line, run>>

SetAlignment ==
    \E k \in AlignmentKeywords :
        Mutate("set_alignment", k, set_alignment(layout, k))

SetFontStyle ==
    \E k \in StyleKeywords :
        Mutate("set_font_style", k, set_font_style(layout, k))

SetFontVariant ==
    \E k \in VariantKeywords :
        Mutate("set_font_variant", k, set_font_variant(layout, k))

SetFontWeight ==
    \E w \in Weights :
        Mutate("set_font_weight", w, set_font_weight(layout, w))

NextFragment == SetAlignment \/ SetFontStyle \/ SetFontVariant \/ SetFontWeight

SpecFragment == InitFragment /\ [][NextFragment]_vars

-----------------------------------------------------------------------------
(* The line run: a TextLineFragment on a text and a wrap width, queried     *)
(* for its first line and for the text left over.                           *)

InitLine ==
    /\ HtmlIdle
    /\ \E in \in FragmentInputs : layout = TextFragment(in[1], in[2])
    /\ last = NoCall
    /\ line = NoLine
    /\ run = NoRun

QueryLine ==
    /\ LET text == get_text(layout)
           rest == get_remaining_text(layout)
       IN  /\ line' = [text |-> text.value, remaining |-> rest.value]
           /\ last' = [op |-> "get_text", arg |-> "none",
                       raised |-> IF text.raised # "none" THEN text.raised
                                  ELSE rest.raised]
    /\ UNCHANGED <<pc, element, box0, box, called, outcome, layout, run>>

SetWidth ==
    /\ \E w \in Widths :
           /\ layout' = set_width(layout, w)
           /\ last' = [op |-> "set_width", arg |-> w, raised |-> "none"]
    /\ line' = NoLine
    /\ UNCHANGED <<pc, element, box0, box, called, outcome, run>>

NextLine == QueryLine \/ SetWidth

SpecLine == InitLine /\ [][NextLine]_vars

-----------------------------------------------------------------------------
(* The line-breaking run: the layout algorithm breaks a text run into line  *)
(* boxes.  It makes a fragment of the run's text at the width available to  *)
(* the first line box and queries its first line; while the fragment has    *)
(* remaining text, it makes the next fragment of that text, at the width    *)
(* available to the next line box.  run.lines holds the lines taken so far, *)
(* each with the offset into the run's text that its fragment started at.   *)

\* The text runs broken into lines, with the width of their first line box.
RunInputs == (Texts \ {<< >>}) \X Widths

InitBreak ==
    /\ HtmlIdle
    /\ \E in \in RunInputs :
           /\ layout = TextFragment(in[1], in[2])
           /\ run = [text |-> in[1], start |-> 0, lines |-> << >>]
    /\ last = NoCall
    /\ line = NoLine

\* The loop's step: the line just queried is taken, and the remaining text
\* becomes the working text of a fragment for the next line box.
NextLineBox ==
    /\ last.op = "get_text" /\ last.raised = "none"
    /\ line.remaining # None
    /\ \E w \in Widths :
           /\ layout' = TextFragment(line.remaining[1], w)
           /\ last' = [op |-> "TextLineFragment", arg |-> w, raised |-> "none"]
    /\ run' = [run EXCEPT
                  !.start = @ + Len(decode(layout.text).value)
                              - Len(line.remaining[1]),
                  !.lines = Append(@, [start |-> run.start,
                                       text |-> line.text])]
    /\ line' = NoLine
    /\ UNCHANGED <<pc, element, box0, box, called, outcome>>

NextBreak == QueryLine \/ NextLineBox

SpecBreak == InitBreak /\ [][NextBreak]_vars

-----------------------------------------------------------------------------
(* Claims about weasy/html.py, checked under Spec.                          *)

Handled(name) == pc = "handled" /\ called = name

SupportedDisplays ==
    {"block", "list-item", "table", "inline", "inline-table", "inline-block"}

\* C1: for every element/box pair given to handle_element, whatever the
\* box's element_tag: an element.tag without a registered handler gives
\* exactly [box] with the box unmodified, an element.tag with a registered
\* handler gives exactly what that handler returns, and the dispatch itself
\* never fails (no KeyError).
C1_DispatchOnElementTag ==
    pc = "handled" =>
        /\ outcome.raised # "KeyError"
        /\ element.tag \notin RegisteredTags =>
               outcome = Return(<<box0>>) /\ box = box0
        /\ element.tag \in RegisteredTags =>
               LET r == CallHandler(HTML_HANDLERS[element.tag],
                                    document, element, box0)
               IN  outcome = [raised |-> r.raised, value |-> r.value]
                   /\ box = r.box

\* The surface the document gives for the element's src, None when src is
\* absent or empty.
SurfaceOf(e) == IF Truthy(e.src) THEN document[e.src[1]] ELSE None

\* C2: an img whose src resolves to a decodable surface, on a box with a
\* supported display, gives exactly one box: BlockLevelReplacedBox when the
\* display is block-level and InlineLevelReplacedBox otherwise, carrying the
\* element's tag and source line, the original box's style and an
\* ImageReplacement of that surface, whatever the alt attribute is.
C2_ImgReplacedBox ==
    (Handled("handle_img") /\ SurfaceOf(element) # None
        /\ box0.style.display \in SupportedDisplays) =>
        /\ outcome.raised = "none"
        /\ Len(outcome.value) = 1
        /\ LET b == outcome.value[1]
           IN  /\ b.type = IF box0.style.display \in {"block", "list-item", "table"}
                           THEN "BlockLevelReplacedBox"
                           ELSE "InlineLevelReplacedBox"
               /\ b.element_tag = element.tag
               /\ b.sourceline = element.sourceline
               /\ b.style = box0.style
               /\ b.replacement = [class |-> "ImageReplacement",
                                   surface |-> SurfaceOf(element)[1]]

C2_Witness ==
    /\ Handled("handle_img")
    /\ element.src = Some("b.png")
    /\ element.alt = Some("A cat")
    /\ box0.style.display = "table"
    /\ Len(outcome.value) = 1
    /\ outcome.value[1].type = "BlockLevelReplacedBox"
    /\ outcome.value[1].replacement.surface = "surface_b"

\* C3: an img for which no surface is obtained (src absent or empty, or the
\* document has no surface for it) gives, when alt is non-empty, exactly one
\* wrapper box, BlockBox or InlineBox as the classifier says, holding one
\* TextBox with the alt text (the classifier's error for an unsupported
\* display is the only way out of that case); when alt is '' or absent it
\* gives the empty list, and raises nothing, whatever the display is.
C3_ImgAltFallback ==
    (Handled("handle_img") /\ SurfaceOf(element) = None) =>
        IF Truthy(element.alt)
        THEN IF box0.style.display \in SupportedDisplays
             THEN /\ outcome.raised = "none"
                  /\ Len(outcome.value) = 1
                  /\ LET w == outcome.value[1]
                     IN  /\ w.type = IF box0.style.display
                                         \in {"block", "list-item", "table"}
                                     THEN "BlockBox" ELSE "InlineBox"
                         /\ w.element_tag = element.tag
                         /\ w.sourceline = element.sourceline
                         /\ w.style = box0.style
                         /\ Len(w.children) = 1
                         /\ w.children[1].type = "TextBox"
                         /\ w.children[1].text = element.alt[1]
                         /\ w.children[1].element_tag = element.tag
                         /\ w.children[1].sourceline = element.sourceline
                         /\ w.children[1].style = [inherit_from |-> box0.style]
             ELSE outcome.raised = "ValueError"
        ELSE outcome = Return(<< >>)

C3_Witness ==
    /\ Handled("handle_img")
    /\ element.src = Some("broken.png")
    /\ element.alt = Some("A cat")
    /\ box0.style.display = "inline-block"
    /\ Len(outcome.value) = 1
    /\ outcome.value[1].type = "InlineBox"
    /\ outcome.value[1].children[1].text = "A cat"

\* The empty-sequence case of C3 on a box whose display the classifier
\* refuses.
C3_WitnessEmpty ==
    /\ Handled("handle_img")
    /\ element.src = Some("broken.png")
    /\ element.alt = Some("")
    /\ box0.style.display = "run-in"
    /\ outcome = Return(<< >>)

\* The integer an attribute parses to: None when the attribute is absent or
\* its trimmed text is not an integer.
Parsed(e, name) ==
    LET v == int(strip(get(e, name)))
    IN  IF v.raised = "none" THEN Some(v.value) ELSE None

\* C4: a col element on a TableColumnBox whose span attribute parses to an
\* integer n >= 2 gives exactly n boxes, each an independent copy of the
\* original box (its own object, the same tag, source line and style) with
\* span equal to the parsed n; when the attribute is absent, invalid or
\* below 1 and the box's span is 1, the result is the one original box.
C4_ColSpanCopies ==
    (Handled("handle_col") /\ box0.type = "TableColumnBox") =>
        LET n == Parsed(element, "span")
        IN  /\ outcome.raised = "none"
            /\ (n # None /\ n[1] >= 2) =>
                   /\ Len(outcome.value) = n[1]
                   /\ \A i \in 1..Len(outcome.value) :
                          /\ outcome.value[i] =
                                 [box0 EXCEPT !.span = n[1],
                                              !.oid = outcome.value[i].oid]
                          /\ outcome.value[i].oid # box0.oid
                          /\ \A j \in 1..Len(outcome.value) :
                                 i # j =>
                                     outcome.value[i].oid # outcome.value[j].oid
            /\ ((n = None \/ n[1] < 1) /\ box0.span = 1) =>
                   outcome.value = <<box0>> /\ box = box0
            /\ element.span = Some(<<"3">>) =>
                   Len(outcome.value) = 3
                   /\ \A i \in 1..3 : outcome.value[i].span = 3

C4_Witness ==
    /\ Handled("handle_col")
    /\ box0.type = "TableColumnBox"
    /\ box0.span = 1
    /\ element.span = Some(<<" ", "3", " ">>)
    /\ Len(outcome.value) = 3
    /\ outcome.value[3].span = 3

\* C5: a td/th element on a TableCellBox: colspan is written only when the
\* trimmed attribute parses to an integer >= 1, rowspan only when it parses
\* to an integer >= 0 (rowspan="0" sets 0, colspan="0" changes nothing);
\* an absent, non-integer or too small attribute leaves the box's value as
\* it was and raises nothing; the handler always returns [box].
C5_CellSpans ==
    (Handled("handle_td") /\ box0.type = "TableCellBox") =>
        LET c == Parsed(element, "colspan")
            r == Parsed(element, "rowspan")
        IN  /\ outcome = Return(<<box>>)
            /\ box = [box0 EXCEPT
                        !.colspan = IF c # None /\ c[1] >= 1
                                    THEN c[1] ELSE box0.colspan,
                        !.rowspan = IF r # None /\ r[1] >= 0
                                    THEN r[1] ELSE box0.rowspan]
            /\ element.rowspan = Some(<<"0">>) => box.rowspan = 0
            /\ element.colspan = Some(<<"0">>) => box.colspan = box0.colspan
            /\ element.colspan = Some(<<"a", "b", "c">>) =>
                   box.colspan = box0.colspan
            /\ element.rowspan = None => box.rowspan = box0.rowspan

C5_Witness ==
    /\ Handled("handle_td")
    /\ box0.type = "TableCellBox"
    /\ box0.colspan = 2
    /\ box0.rowspan = 2
    /\ element.colspan = Some(<<"0">>)
    /\ element.rowspan = Some(<<"0">>)
    /\ box.colspan = 2
    /\ box.rowspan = 0

\* C6: is_block_level classifies every display value: True exactly for
\* block, list-item and table, False exactly for inline, inline-table and
\* inline-block, a ValueError for every other value (run-in, table-cell,
\* ...), and the box is not modified.
C6_Classifier ==
    pc = "classified" =>
        /\ box = box0
        /\ box0.style.display \in {"block", "list-item", "table"} <=>
               outcome = Return(TRUE)
        /\ box0.style.display \in {"inline", "inline-table", "inline-block"} <=>
               outcome = Return(FALSE)
        /\ box0.style.display \notin SupportedDisplays <=>
               outcome.raised = "ValueError"
        /\ outcome.raised \in {"none", "ValueError"}

C6_Witness ==
    /\ pc = "classified"
    /\ box0.style.display = "run-in"
    /\ outcome.raised = "ValueError"

\* C7: a br element, whatever the provisional box is, gives exactly one
\* InlineBox whose only child is one TextBox holding the single character
\* newline, and the white-space of that text box's style is 'pre'.
C7_BrNewline ==
    Handled("handle_br") =>
        /\ outcome.raised = "none"
        /\ Len(outcome.value) = 1
        /\ outcome.value[1].type = "InlineBox"
        /\ outcome.value[1].element_tag = element.tag
        /\ Len(outcome.value[1].children) = 1
        /\ outcome.value[1].children[1].type = "TextBox"
        /\ outcome.value[1].children[1].text = "\n"
        /\ outcome.value[1].children[1].style.white_space = "pre"

C7_Witness ==
    /\ Handled("handle_br")
    /\ box0.type = "TableCellBox"
    /\ box0.style.display = "table-cell"
    /\ outcome.value[1].type = "InlineBox"
    /\ outcome.value[1].children[1].style.white_space = "pre"

-----------------------------------------------------------------------------
(* Claims about TextLineFragment, checked under SpecLine.                   *)

TextOf(l) == decode(l.text).value

\* Words separated by single spaces: no newline, no space at either end, no
\* two spaces in a row.
IsSpaceSeparated(t) ==
    /\ t # << >>
    /\ \A i \in 1..Len(t) : t[i] # "\n"
    /\ t[1] # " " /\ t[Len(t)] # " "
    /\ \A i \in 1..(Len(t) - 1) : ~(t[i] = " " /\ t[i + 1] = " ")

\* The width of the word of t that spans the characters i..j.
IsWord(t, i, j) ==
    /\ i <= j
    /\ \A k \in i..j : t[k] # " "
    /\ i = 1 \/ t[i - 1] = " "
    /\ j = Len(t) \/ t[j + 1] = " "

WidestWord(t) ==
    Max({PrefixWidth(t, j) - PrefixWidth(t, i - 1) :
            <<i, j>> \in {p \in (1..Len(t)) \X (1..Len(t)) : IsWord(t, p[1], p[2])}})

\* The wrap widths C8 speaks of: at least as wide as the widest word.
WideEnough(l) ==
    l.width >= 0 /\ l.width >= WidestWord(TextOf(l))

AllFits(l) == PrefixWidth(TextOf(l), Len(TextOf(l))) <= l.width

Queried == last.op = "get_text" /\ last.raised = "none"

TheQuick == SubSeq(TheQuickBrownFox, 1, 9)
TheQuickSpace == SubSeq(TheQuickBrownFox, 1, 10)
TheQuickBrown == SubSeq(TheQuickBrownFox, 1, 15)
BrownFox == SubSeq(TheQuickBrownFox, 11, 19)

\* C8 as claimed: on space-separated text at a wrap width at least as wide
\* as the widest word, the first-line text ends at a word boundary (on the
\* last character of a word) and the remainder is the rest of the text from
\* the next word on; "The quick brown fox" at a width that fits "The quick"
\* but not "The quick brown" gives "The quick" and "brown fox"; the
\* remainder is none when all the text fits.
C8_FirstLineWithoutSpace ==
    (Queried /\ IsSpaceSeparated(TextOf(layout)) /\ WideEnough(layout)) =>
        LET t == TextOf(layout)
            k == Len(line.text)
        IN  /\ k >= 1 /\ line.text = SubSeq(t, 1, k)
            /\ t[k] # " " /\ (k = Len(t) \/ t[k + 1] = " ")
            /\ IF AllFits(layout) THEN line.remaining = None
               ELSE line.remaining = Some(SubSeq(t, k + 2, Len(t)))
            /\ (t = TheQuickBrownFox
                  /\ layout.width >= PrefixWidth(t, Len(TheQuick))
                  /\ layout.width < PrefixWidth(t, Len(TheQuickBrown))) =>
                   line.text = TheQuick /\ line.remaining = Some(BrownFox)

\* C8 as amended: the first-line text is a prefix of the text that holds
\* whole words only; when a remainder exists the first-line text ends with
\* the space the line was broken at, the remainder starts at the next word
\* and the two together are the text; "The quick brown fox" at a width that
\* fits "The quick " with its space but not "The quick brown" gives
\* "The quick " and "brown fox"; when all the text fits the first line is the
\* text and the remainder is none.
C8_FirstLineKeepsSpace ==
    (Queried /\ IsSpaceSeparated(TextOf(layout)) /\ WideEnough(layout)) =>
        LET t == TextOf(layout)
            k == Len(line.text)
        IN  /\ k >= 1 /\ line.text = SubSeq(t, 1, k)
            /\ IF AllFits(layout)
               THEN line.text = t /\ line.remaining = None
               ELSE /\ k < Len(t)
                    /\ t[k] = " " /\ t[k + 1] # " "
                    /\ line.remaining = Some(SubSeq(t, k + 1, Len(t)))
                    /\ line.text \o line.remaining[1] = t
            /\ (t = TheQuickBrownFox
                  /\ layout.width >= PrefixWidth(t, Len(TheQuickSpace))
                  /\ layout.width < PrefixWidth(t, Len(TheQuickBrown))) =>
                   line.text = TheQuickSpace /\ line.remaining = Some(BrownFox)

C8_Witness ==
    /\ Queried
    /\ TextOf(layout) = TheQuickBrownFox
    /\ layout.width = PANGO_SCALE * 12
    /\ line.text = TheQuickSpace
    /\ line.remaining = Some(BrownFox)

-----------------------------------------------------------------------------
(* Claims about the TextFragment mutators, checked under SpecFragment.      *)

\* C9: set_font_style with a keyword outside {normal, italic, oblique} and
\* set_font_variant with a keyword outside {normal, small-caps} raise a
\* ValueError and leave the layout, its font included, as it was; with a
\* keyword of the domain they raise nothing and change that one font
\* property only.
C9_FontKeywords ==
    [][/\ last'.op = "set_font_style" =>
              IF last'.arg \in {"normal", "italic", "oblique"}
              THEN /\ last'.raised = "none"
                   /\ layout' = [layout EXCEPT !.font.style =
                          CASE last'.arg = "normal" -> "STYLE_NORMAL"
                            [] last'.arg = "italic" -> "STYLE_ITALIC"
                            [] last'.arg = "oblique" -> "STYLE_OBLIQUE"]
              ELSE last'.raised = "ValueError" /\ layout' = layout
       /\ last'.op = "set_font_variant" =>
              IF last'.arg \in {"normal", "small-caps"}
              THEN /\ last'.raised = "none"
                   /\ layout' = [layout EXCEPT !.font.variant =
                          CASE last'.arg = "normal" -> "VARIANT_NORMAL"
                            [] last'.arg = "small-caps" -> "VARIANT_SMALL_CAPS"]
              ELSE last'.raised = "ValueError" /\ layout' = layout
      ]_vars

C9_Witness ==
    /\ last.op = "set_font_style"
    /\ last.arg = "bold"
    /\ last.raised = "ValueError"
    /\ layout.font = [style |-> "STYLE_ITALIC", variant |-> "VARIANT_SMALL_CAPS",
                      weight |-> 700]

\* C10: after set_alignment calls with keywords of {left, right, center,
\* justify}, the alignment of the layout is that of the last call alone:
\* justification is on exactly when the last keyword was justify, and the
\* anchor is left for left and justify, right for right, center for center.
C10_LastAlignmentWins ==
    (last.op = "set_alignment"
        /\ last.arg \in {"left", "right", "center", "justify"}) =>
        /\ last.raised = "none"
        /\ layout.justify = (last.arg = "justify")
        /\ layout.alignment =
               CASE last.arg \in {"left", "justify"} -> "ALIGN_LEFT"
                 [] last.arg = "right" -> "ALIGN_RIGHT"
                 [] last.arg = "center" -> "ALIGN_CENTER"

-----------------------------------------------------------------------------
(* Claims about the line-breaking run, checked under SpecBreak.             *)

Newline == <<"\n">>

\* The working text splits into the first line, a newline skipped or not,
\* and the remaining text; line and newline hold at least one character.
SplitsWorkingText ==
    \E skipped \in {<< >>, Newline} :
        /\ TextOf(layout) = line.text \o skipped \o line.remaining[1]
        /\ Len(line.text) + Len(skipped) >= 1
        /\ Len(line.remaining[1]) < Len(TextOf(layout))

\* The line taken i-th is the stretch of the run's text at its offset.
IsStretchOfRun(i) ==
    run.lines[i].text =
        SubSeq(run.text, run.lines[i].start + 1,
               run.lines[i].start + Len(run.lines[i].text))

\* Each line taken ends before the next one starts.
LinesDisjoint ==
    \A i \in 1..Len(run.lines) : \A j \in 1..Len(run.lines) :
        i < j => run.lines[i].start + Len(run.lines[i].text)
                     <= run.lines[j].start

RunProgress ==
    /\ Len(run.lines) <= run.start /\ run.start <= Len(run.text)
    /\ TextOf(layout) = SubSeq(run.text, run.start + 1, Len(run.text))
    /\ \A i \in 1..Len(run.lines) :
           /\ IsStretchOfRun(i)
           /\ run.lines[i].start + Len(run.lines[i].text) <= run.start
    /\ LinesDisjoint
    /\ (Queried /\ line.remaining # None) => SplitsWorkingText
    /\ Queried =>
           line.text = SubSeq(run.text, run.start + 1,
                              run.start + Len(line.text))

BreakDone == Queried /\ line.remaining = None

\* The loop stops short of a query with no remainder only when a query
\* raises: before a query QueryLine can be taken, after one with a
\* remainder NextLineBox can.
BreakAborted == last.op = "get_text" /\ last.raised # "none"

\* C11: the line-breaking loop terminates on every non-empty text at every
\* wrap width.  Each query's remainder is none or a strictly shorter suffix
\* of the working text (first line and skipped newline hold at least one
\* character), so every step the loop has taken made the working text
\* shorter and the loop takes no more steps than the run has characters,
\* no query raises, so the loop goes on until a query has no remainder, and
\* the first lines taken are stretches of the run's text that do not
\* overlap.
C11_LineBreakingTerminates ==
    /\ RunProgress
    /\ ~BreakAborted

\* A run with a newline and a two-byte character, broken into three lines
\* one of which ended at a wrap point, is done.
C11_Witness ==
    /\ BreakDone
    /\ Len(run.lines) = 2
    /\ \E i \in 1..Len(run.text) : run.text[i] = "\n"
    /\ \E i \in 1..Len(run.text) : run.text[i] = "é"
    /\ \E i \in 1..2 :
           /\ run.lines[i].text # << >>
           /\ run.lines[i].text[Len(run.lines[i].text)] = " "
    /\ line.text # << >>

=============================================================================
